---- MODULE Spec2Model ----
(***************************************************************************)
(* Digital cash ledger of src/src/c1_state_machine/p5_digital_cash.rs:     *)
(* a set of bills, a serial cursor, and the transition function            *)
(* DigitalCashSystem::next_state over Mint and Transfer transactions.      *)
(*                                                                         *)
(* u64 is modelled at a reduced width (BITS bits) so that the overflow of  *)
(* `+` and `+=` is reachable.  An overflowing `+`/`+=` panics when the     *)
(* build has overflow checks (debug profile) and wraps when it has not     *)
(* (release profile); the profile is fixed per behaviour by the variable   *)
(* overflow_checks.  checked_add never panics.                             *)
(***************************************************************************)
EXTENDS Integers, Sequences, FiniteSets, TLC

\* ---------------------------------------------------------------- bounds
\* Width of the model's u64.
BITS == 3
\* Serials a behaviour that starts from State::new() may consume: calls are
\* made while next_serial is below it.  Fewer than 2^BITS, as 2^64 bill
\* creations are out of reach of any run of the program; a cursor at or near
\* u64::MAX is reached through State::set_serial instead (SpecAny).
MaxSerial == 3
\* Longest spends / receives vector of a Transfer (spends closed by a stray
\* entry, StrayLast, run one entry longer).
MaxLen == 2

U64_MAX == 2^BITS - 1

\* The closed enumeration of participants (super::User).
Users == {"Alice", "Bob"}

\* Amounts the transactions are drawn from: zero, a unit and the largest
\* u64.
AmountValues == {0, 1, U64_MAX}

\* ------------------------------------------------------------ data model
MkBill(o, a, s) == [owner |-> o, amount |-> a, serial |-> s]

\* State::new
new == [bills |-> {}, next_serial |-> 0, panicked |-> FALSE]

\* ------------------------------------------------------------ u64 helpers
\* u64::checked_add(a, b) is Some(_)
checked_add_some(a, b) == a + b <= U64_MAX

wrapping_add(a, b) == (a + b) % (U64_MAX + 1)

\* a + b / a += b on u64 under the build profile oc (overflow checks on/off):
\* the value, or a panic.
add_u64(a, b, oc) ==
    IF a + b <= U64_MAX THEN [panic |-> FALSE, value |-> a + b]
    ELSE IF oc THEN [panic |-> TRUE, value |-> a]
    ELSE [panic |-> FALSE, value |-> wrapping_add(a, b)]

\* Vec<Bill>::contains
contains(v, bill) == \E k \in 1..Len(v) : v[k] = bill

\* ------------------------------------------------------------ State impl
\* State::set_serial
set_serial(st, serial) == [st EXCEPT !.next_serial = serial]

\* State::increment_serial
increment_serial(st, oc) ==
    LET r == add_u64(st.next_serial, 1, oc)
    IN  [st EXCEPT !.next_serial = r.value, !.panicked = r.panic]

\* State::add_bill with the cursor left where it was.
add_bill_no_increment(st, elem, oc) ==
    [st EXCEPT !.bills = @ \cup {elem}]

\* State::add_bill: insert, then increment the cursor
add_bill(st, elem, oc) ==
    increment_serial([st EXCEPT !.bills = @ \cup {elem}], oc)

\* for i in iter { state.add_bill(i) }  (a panic unwinds out of the loop)
RECURSIVE add_bills(_, _, _, _)
add_bills(st, v, k, oc) ==
    IF k > Len(v) \/ st.panicked THEN st
    ELSE add_bills(add_bill(st, v[k], oc), v, k + 1, oc)

\* FromIterator<Bill> for State / From<[Bill; N]> for State
from_iter(iter, oc) == add_bills(new, iter, 1, oc)

\* ------------------------------------------------- Transfer, step by step
\* Outcome of a validation step: it passed ("ok"), it returned the unchanged
\* state ("reject"), or an arithmetic overflow unwound the call ("panic").

\* The receive-side loop accumulating with a plain wrapping addition in place
\* of checked_add.
RECURSIVE receive_loop_wrapping(_, _, _, _)
receive_loop_wrapping(spends, receives, k, total_amount_received) ==
    IF k > Len(receives)
    THEN [status |-> "ok", total |-> total_amount_received]
    ELSE IF receives[k].amount = 0 \/ contains(spends, receives[k])
    THEN [status |-> "reject", total |-> total_amount_received]
    ELSE receive_loop_wrapping(spends, receives, k + 1,
             wrapping_add(total_amount_received, receives[k].amount))

\* The receive-side loop without the amount == 0 test.
RECURSIVE receive_loop_zero_allowed(_, _, _, _)
receive_loop_zero_allowed(spends, receives, k, total_amount_received) ==
    IF k > Len(receives)
    THEN [status |-> "ok", total |-> total_amount_received]
    ELSE IF contains(spends, receives[k])
    THEN [status |-> "reject", total |-> total_amount_received]
    ELSE IF ~checked_add_some(total_amount_received, receives[k].amount)
    THEN [status |-> "reject", total |-> total_amount_received]
    ELSE receive_loop_zero_allowed(spends, receives, k + 1,
             total_amount_received + receives[k].amount)

\* Lines 119-129: receive-side loop.  Zero amount, a receive that is also a
\* spend, or a checked_add overflow returns early; otherwise accumulate.
RECURSIVE receive_loop(_, _, _, _)
receive_loop(spends, receives, k, total_amount_received) ==
    IF k > Len(receives)
    THEN [status |-> "ok", total |-> total_amount_received]
    ELSE IF receives[k].amount = 0 \/ contains(spends, receives[k])
    THEN [status |-> "reject", total |-> total_amount_received]
    ELSE IF ~checked_add_some(total_amount_received, receives[k].amount)
    THEN [status |-> "reject", total |-> total_amount_received]
    ELSE receive_loop(spends, receives, k + 1,
                      total_amount_received + receives[k].amount)

\* The spend-side loop without the membership test: it only accumulates.
RECURSIVE spend_loop_unchecked(_, _, _, _, _)
spend_loop_unchecked(live, spends, k, total_amount_spent, oc) ==
    IF k > Len(spends)
    THEN [status |-> "ok", total |-> total_amount_spent]
    ELSE LET r == add_u64(total_amount_spent, spends[k].amount, oc)
         IN  IF r.panic
             THEN [status |-> "panic", total |-> total_amount_spent]
             ELSE spend_loop_unchecked(live, spends, k + 1, r.value, oc)

\* Lines 131-137: spend-side loop.  A spend that is not a live bill returns
\* early; total_amount_spent += bill.amount is an unguarded u64 addition.
RECURSIVE spend_loop(_, _, _, _, _)
spend_loop(live, spends, k, total_amount_spent, oc) ==
    IF k > Len(spends)
    THEN [status |-> "ok", total |-> total_amount_spent]
    ELSE IF spends[k] \notin live
    THEN [status |-> "reject", total |-> total_amount_spent]
    ELSE LET r == add_u64(total_amount_spent, spends[k].amount, oc)
         IN  IF r.panic
             THEN [status |-> "panic", total |-> total_amount_spent]
             ELSE spend_loop(live, spends, k + 1, r.value, oc)

\* The duplicate check left out.
duplicate_spends_skipped(spends) == FALSE

\* Lines 140-146: two entries of spends are equal.
duplicate_spends(spends) ==
    \E i \in 1..Len(spends) : \E j \in (i + 1)..Len(spends) :
        spends[i] = spends[j]

\* Lines 148-154: a spent serial is also a received serial.
serial_already_seen(spends, receives) ==
    \E i \in 1..Len(spends) : \E j \in 1..Len(receives) :
        spends[i].serial = receives[j].serial

\* The contiguity loop comparing against the index alone, next_serial
\* forgotten.
RECURSIVE serial_loop_from_zero(_, _, _, _)
serial_loop_from_zero(next_serial_, receives, k, oc) ==
    IF k > Len(receives) THEN "ok"
    ELSE IF receives[k].serial # k - 1 THEN "reject"
    ELSE serial_loop_from_zero(next_serial_, receives, k + 1, oc)

\* Lines 156-162: receives[i].serial != next_serial + j, with j = i counted
\* from 0; the sum is an unguarded u64 addition evaluated before the compare.
RECURSIVE serial_loop(_, _, _, _)
serial_loop(next_serial_, receives, k, oc) ==
    IF k > Len(receives) THEN "ok"
    ELSE LET r == add_u64(next_serial_, k - 1, oc)
         IN  IF r.panic THEN "panic"
             ELSE IF receives[k].serial # r.value THEN "reject"
             ELSE serial_loop(next_serial_, receives, k + 1, oc)

\* The conservation check left out.
conserves_skipped(total_amount_received, total_amount_spent) == TRUE

\* Lines 164-166: the transfer is kept only when received <= spent.
conserves(total_amount_received, total_amount_spent) ==
    ~(total_amount_received > total_amount_spent)

\* Lines 172-174: spends.iter().for_each(|bill| next_state.bills.remove(bill))
RECURSIVE remove_spends(_, _, _)
remove_spends(st, spends, k) ==
    IF k > Len(spends) THEN st
    ELSE remove_spends([st EXCEPT !.bills = @ \ {spends[k]}], spends, k + 1)

\* Lines 169-174: insert every receive (advancing the cursor), then remove
\* every spend.
commit(st, spends, receives, oc) ==
    LET inserted == add_bills(st, receives, 1, oc)
    IN  IF inserted.panicked THEN inserted
        ELSE remove_spends(inserted, spends, 1)

\* A burn that also consumes a serial.
burn_advancing(st, spends) ==
    [st EXCEPT !.bills = {bill \in @ : ~contains(spends, bill)},
               !.next_serial = wrapping_add(@, 1)]

\* A burn that, like the full path, returns early on a spend that is not live.
burn_strict(st, spends) ==
    IF \E k \in 1..Len(spends) : spends[k] \notin st.bills THEN st
    ELSE [st EXCEPT !.bills = {bill \in @ : ~contains(spends, bill)}]

\* Lines 114-117: bills.retain(|bill| !spends.contains(bill))
burn(st, spends) ==
    [st EXCEPT !.bills = {bill \in @ : ~contains(spends, bill)}]

\* A panic unwinds next_state: its working copy is dropped and the caller is
\* left with the state it passed in by reference.
unwound(starting_state) == [starting_state EXCEPT !.panicked = TRUE]

\* Lines 100-107: the Mint arm.
mint(starting_state, minter, amount, oc) ==
    add_bill(starting_state,
             MkBill(minter, amount, starting_state.next_serial), oc)

\* Lines 118-174: the checks of a Transfer that spends and receives, in the
\* order of the code, and the commit when all of them pass.
validate_and_commit(starting_state, spends, receives, oc) ==
    LET rl == receive_loop(spends, receives, 1, 0)
        sl == spend_loop(starting_state.bills, spends, 1, 0, oc)
        cl == serial_loop(starting_state.next_serial, receives, 1, oc)
    IN  IF rl.status = "reject" THEN starting_state
        ELSE IF sl.status = "reject" THEN starting_state
        ELSE IF sl.status = "panic" THEN unwound(starting_state)
        ELSE IF duplicate_spends(spends) THEN starting_state
        ELSE IF serial_already_seen(spends, receives) THEN starting_state
        ELSE IF cl = "reject" THEN starting_state
        ELSE IF cl = "panic" THEN unwound(starting_state)
        ELSE IF ~conserves(rl.total, sl.total) THEN starting_state
        ELSE commit(starting_state, spends, receives, oc)

\* The Transfer arm without the empty-spends return.
transfer_no_empty_check(starting_state, spends, receives, oc) ==
    IF Len(receives) = 0 THEN burn(starting_state, spends)
    ELSE validate_and_commit(starting_state, spends, receives, oc)

\* Lines 108-175: the Transfer arm.
transfer(starting_state, spends, receives, oc) ==
    IF Len(spends) = 0 THEN starting_state
    ELSE IF Len(receives) = 0 THEN burn(starting_state, spends)
    ELSE validate_and_commit(starting_state, spends, receives, oc)

\* ------------------------------------------------------------ transactions
NoTx == [kind |-> "None"]
MintTx(minter, amount) == [kind |-> "Mint", minter |-> minter, amount |-> amount]
TransferTx(spends, receives) ==
    [kind |-> "Transfer", spends |-> spends, receives |-> receives]

\* DigitalCashSystem::next_state
next_state(starting_state, t, oc) ==
    LET next == IF t.kind = "Mint"
                THEN mint(starting_state, t.minter, t.amount, oc)
                ELSE transfer(starting_state, t.spends, t.receives, oc)
    IN  IF next.panicked THEN unwound(starting_state) ELSE next

\* ------------------------------------------------------------------ state
VARIABLES
    bills,            \* State.bills of the ledger the caller holds
    next_serial,      \* State.next_serial of that ledger
    overflow_checks,  \* build profile: TRUE = overflow panics, FALSE = wraps
    tx,               \* the transaction of the call in hand (NoTx: none)
    ret,              \* what that call returned; ret.panicked: it unwound
    replayed,         \* the call in hand re-submits the transaction before it
    removed           \* bills a Transfer has taken out of the live set

vars == <<bills, next_serial, overflow_checks, tx, ret, replayed, removed>>

\* The state the caller holds, as passed to next_state by reference.
cur == [bills |-> bills, next_serial |-> next_serial, panicked |-> FALSE]

\* ----------------------------------------------------------------- inputs
SeqsUpTo(S, n) == UNION {[1..m -> S] : m \in 0..n}

Other(o) == CHOOSE u \in Users : u # o

\* Entries a caller may list in spends: the live bills, bills that were
\* live once, and forgeries of live bills (another owner, another amount).
SpendPool ==
    bills \cup removed
    \cup {[b EXCEPT !.owner = Other(b.owner)] : b \in bills}
    \cup {[b EXCEPT !.amount = IF b.amount = 1 THEN U64_MAX ELSE 1] : b \in bills}

\* Serials a caller may put on a received bill: the next two the state would
\* assign (computed as the u64 sum without overflow checks), and serial 0.
RecvSerials == {0, next_serial, wrapping_add(next_serial, 1)}

RecvPool == {MkBill(o, a, s) : o \in Users, a \in AmountValues, s \in RecvSerials}

\* Receives as a well-behaved wallet builds them: unit bills for one owner
\* on the serials the state assigns next.
PlainReceives(n) ==
    {[k \in 1..m |-> MkBill("Bob", 1, wrapping_add(next_serial, k - 1))] :
        m \in 0..n}

\* Spends one entry longer than MaxLen: live bills, then one entry that is
\* not a live bill.
StrayLast ==
    {Append(v, b) : v \in [1..MaxLen -> bills], b \in SpendPool \ bills}

\* The Transfers offered in the current state, with receives no longer than
\* n: any list of live bills against any receives, any spends against
\* well-formed receives, and live spends closed by a stray entry against
\* well-formed receives.
TransferInputs(n) ==
    (SeqsUpTo(bills, MaxLen) \X SeqsUpTo(RecvPool, n))
    \cup (SeqsUpTo(SpendPool, MaxLen) \X PlainReceives(n))
    \cup (StrayLast \X PlainReceives(n))

Min(a, b) == IF a < b THEN a ELSE b

\* ---------------------------------------------------------------- actions
\* The caller evaluates next_state(&state, &t) on the state it holds.
Call(t) ==
    /\ tx' = t
    /\ ret' = next_state(cur, t, overflow_checks)
    /\ UNCHANGED <<bills, next_serial, overflow_checks, replayed, removed>>

\* State::new(), under either build profile.
Init ==
    /\ bills = new.bills
    /\ next_serial = new.next_serial
    /\ overflow_checks \in BOOLEAN
    /\ tx = NoTx
    /\ ret = new
    /\ replayed = FALSE
    /\ removed = {}

Mint ==
    /\ tx = NoTx
    /\ next_serial < MaxSerial
    /\ \E minter \in Users, amount \in AmountValues :
           Call(MintTx(minter, amount))

Transfer ==
    /\ tx = NoTx
    /\ next_serial < MaxSerial
    /\ \E io \in TransferInputs(Min(MaxLen, MaxSerial - next_serial)) :
           Call(TransferTx(io[1], io[2]))

\* The caller takes the returned state as its ledger.  A call that panicked
\* returned nothing: the program has unwound and makes no further call.
Adopt ==
    /\ tx # NoTx
    /\ ~ret.panicked
    /\ bills' = ret.bills
    /\ next_serial' = ret.next_serial
    /\ removed' = IF tx.kind = "Transfer"
                  THEN removed \cup (bills \ ret.bills)
                  ELSE removed
    /\ tx' = NoTx
    /\ replayed' = FALSE
    /\ UNCHANGED <<overflow_checks, ret>>

\* The caller takes the returned state and submits the same Transfer to it
\* once more.
Replay ==
    /\ tx.kind = "Transfer"
    /\ ~ret.panicked
    /\ bills' = ret.bills
    /\ next_serial' = ret.next_serial
    /\ removed' = removed \cup (bills \ ret.bills)
    /\ ret' = next_state(ret, tx, overflow_checks)
    /\ replayed' = TRUE
    /\ UNCHANGED <<overflow_checks, tx>>

Next == Mint \/ Transfer \/ Adopt \/ Replay

Spec == Init /\ [][Next]_vars

\* ------------------------------------------- states built by the caller
\* Bills a caller hands to State::from, with serials of its own choosing.
GenesisBills ==
    {MkBill("Alice", a, s) : a \in {1, U64_MAX}, s \in {0, 1, U64_MAX}}

\* Cursor values a caller passes to State::set_serial.
SetSerialValues == {0, U64_MAX - 1, U64_MAX}

\* State::from(value), then either nothing or set_serial(serial).
InitAny ==
    \E value \in SeqsUpTo(GenesisBills, MaxLen) :
        \E serial \in {Len(value)} \cup SetSerialValues, oc \in BOOLEAN :
            LET st == set_serial(from_iter(value, oc), serial)
            IN  /\ bills = st.bills
                /\ next_serial = st.next_serial
                /\ overflow_checks = oc
                /\ tx = NoTx
                /\ ret = st
                /\ replayed = FALSE
                /\ removed = {}

\* One Mint on the state as built.
MintAny ==
    /\ tx = NoTx
    /\ \E minter \in Users, amount \in AmountValues :
           Call(MintTx(minter, amount))

\* One Transfer on the state as built; the state and the receives hold at
\* most MaxSerial bills between them.
TransferAny ==
    /\ tx = NoTx
    /\ \E io \in TransferInputs(Min(MaxLen, MaxSerial - Cardinality(bills))) :
           Call(TransferTx(io[1], io[2]))

NextAny == MintAny \/ TransferAny \/ Replay

SpecAny == InitAny /\ [][NextAny]_vars

\* ------------------------------------------------- vocabulary of the claims
Range(v) == {v[k] : k \in 1..Len(v)}

\* The mathematical sum of the amounts of a vector of bills.
RECURSIVE SumAmounts(_)
SumAmounts(v) ==
    IF Len(v) = 0 THEN 0 ELSE v[1].amount + SumAmounts(Tail(v))

\* A call has been made and the transaction in hand is a Transfer.
IsTransfer == tx.kind = "Transfer"

\* The call returned the state it was given.
Unchanged ==
    ~ret.panicked /\ ret.bills = bills /\ ret.next_serial = next_serial

\* The call produced a state other than the one it was given.
Changed ==
    ~ret.panicked /\ (ret.bills # bills \/ ret.next_serial # next_serial)

\* The call returned the committed state of the Transfer in hand.
Committed ==
    /\ ~ret.panicked
    /\ ret.bills = (bills \ Range(tx.spends)) \cup Range(tx.receives)
    /\ ret.next_serial = next_serial + Len(tx.receives)

\* ---------------------------------------------------------------- claims

\* C1: a Transfer with non-empty spends and non-empty receives returns
\* either the state it was given (same bills, same next_serial) or the fully
\* committed state (receives inserted, spends removed, next_serial advanced
\* by the number of receives); nothing in between.
C1_AllOrNothing ==
    (IsTransfer /\ Len(tx.spends) > 0 /\ Len(tx.receives) > 0 /\ ~ret.panicked)
        => (Unchanged \/ Committed)

\* C2: a Mint is never rejected: it returns bills with
\* Bill(minter, amount, next_serial) added and next_serial advanced by one.
C2_MintUnconditional ==
    tx.kind = "Mint"
        => /\ ~ret.panicked
           /\ ret.bills = bills \cup {MkBill(tx.minter, tx.amount, next_serial)}
           /\ ret.next_serial = next_serial + 1

\* The Transfer in hand passes every check as the contract states them, on
\* the true sums: positive receive amounts, a receive sum within u64, every
\* spend live, no spend listed twice, no serial both spent and received,
\* receives numbered from next_serial in order, received <= spent.
SatisfiesEveryCheck ==
    /\ \A k \in 1..Len(tx.receives) : tx.receives[k].amount > 0
    /\ SumAmounts(tx.receives) <= U64_MAX
    /\ \A k \in 1..Len(tx.spends) : tx.spends[k] \in bills
    /\ \A i, j \in 1..Len(tx.spends) : i # j => tx.spends[i] # tx.spends[j]
    /\ \A i \in 1..Len(tx.spends) : \A j \in 1..Len(tx.receives) :
           tx.spends[i].serial # tx.receives[j].serial
    /\ \A k \in 1..Len(tx.receives) :
           tx.receives[k].serial = next_serial + (k - 1)
    /\ SumAmounts(tx.receives) <= SumAmounts(tx.spends)

\* C3: a Transfer with non-empty spends and receives that satisfies every
\* check returns exactly (bills minus spends) plus receives, with next_serial
\* advanced by the number of receives.
C3_CommitEffect ==
    (IsTransfer /\ Len(tx.spends) > 0 /\ Len(tx.receives) > 0
        /\ SatisfiesEveryCheck) => Committed

\* C4: a Transfer with non-empty receives that changes the state has a true
\* receives sum no greater than its true spends sum; equivalently, a Transfer
\* that receives more than it spends leaves the state as it was.
C4_ValueConservation ==
    (IsTransfer /\ Len(tx.receives) > 0)
        => /\ Changed => SumAmounts(tx.receives) <= SumAmounts(tx.spends)
           /\ SumAmounts(tx.receives) > SumAmounts(tx.spends)
                  => (ret.bills = bills /\ ret.next_serial = next_serial)

\* C4 witness: the conservation check alone turns a Transfer down: every
\* other check passes, the receives exceed the spends, nothing changes.
C4_Witness ==
    /\ IsTransfer /\ Len(tx.spends) > 0 /\ Len(tx.receives) > 0
    /\ \A k \in 1..Len(tx.receives) : tx.receives[k].amount > 0
    /\ SumAmounts(tx.receives) <= U64_MAX
    /\ \A k \in 1..Len(tx.spends) : tx.spends[k] \in bills
    /\ ~duplicate_spends(tx.spends)
    /\ ~serial_already_seen(tx.spends, tx.receives)
    /\ \A k \in 1..Len(tx.receives) :
           tx.receives[k].serial = next_serial + (k - 1)
    /\ SumAmounts(tx.receives) > SumAmounts(tx.spends)
    /\ Unchanged

\* C5: from the fresh state, a bill that a Transfer has removed from the live
\* set is never live again, in the ledger or in a returned state, and a later
\* Transfer with non-empty receives that lists it in spends changes nothing.
C5_NoDoubleSpend ==
    /\ removed \cap bills = {}
    /\ removed \cap ret.bills = {}
    /\ (IsTransfer /\ Len(tx.receives) > 0
           /\ (\E k \in 1..Len(tx.spends) : tx.spends[k] \in removed))
       => (ret.bills = bills /\ ret.next_serial = next_serial)

\* C5 witness: a Transfer with receives lists a bill that an earlier Transfer
\* removed, and is turned down.
C5_Witness ==
    /\ IsTransfer /\ Len(tx.receives) > 0
    /\ \E k \in 1..Len(tx.spends) : tx.spends[k] \in removed
    /\ Unchanged

\* C6: re-submitting a Transfer to the state it returned returns that state
\* again: bills and next_serial are as the first application left them.
C6_ReplayNoOp == replayed => Unchanged

\* C6 witness: the Transfer re-submitted is one that was committed: its
\* receives are live, its spends were removed by it.
C6_Witness ==
    /\ replayed /\ Len(tx.spends) > 0 /\ Len(tx.receives) > 0
    /\ Range(tx.receives) \subseteq bills
    /\ Range(tx.spends) \subseteq removed
    /\ Unchanged

\* C7: every call that returns leaves next_serial no smaller, and moves it by
\* the number of bills the call creates: 1 for a Mint, the number of receives
\* for a committed Transfer, 0 for a rejected Transfer, an empty-spend
\* Transfer and a burn.
C7_SerialMonotone ==
    (tx # NoTx /\ ~ret.panicked)
        => /\ ret.next_serial >= next_serial
           /\ ret.next_serial - next_serial =
                 IF tx.kind = "Mint" THEN 1
                 ELSE IF Len(tx.spends) > 0 /\ Len(tx.receives) > 0
                         /\ ret.bills # bills
                 THEN Len(tx.receives)
                 ELSE 0

\* C8: from the fresh state, no two distinct live bills carry the same
\* serial, in the ledger or in a returned state.
C8_SerialUnique ==
    /\ \A a, b \in bills : a.serial = b.serial => a = b
    /\ \A a, b \in ret.bills : a.serial = b.serial => a = b

\* C8 witness: a committed Transfer has returned a state of several bills,
\* the receives among them.
C8_Witness ==
    /\ IsTransfer /\ Len(tx.receives) > 0 /\ Changed
    /\ Range(tx.receives) \subseteq ret.bills
    /\ Cardinality(ret.bills) >= 2

\* C9: a Transfer with non-empty spends and empty receives returns bills
\* minus every bill listed in spends and the same next_serial; spends that
\* are not live, or listed twice, are ignored.
C9_Burn ==
    (IsTransfer /\ Len(tx.spends) > 0 /\ Len(tx.receives) = 0)
        => /\ ~ret.panicked
           /\ ret.bills = bills \ Range(tx.spends)
           /\ ret.next_serial = next_serial

\* C9 witness: a burn that lists a live bill and a bill that is not live
\* removes the live one.
C9_Witness ==
    /\ IsTransfer /\ Len(tx.spends) > 0 /\ Len(tx.receives) = 0
    /\ \E i, j \in 1..Len(tx.spends) :
           tx.spends[i] \in bills /\ tx.spends[j] \notin bills
    /\ ret.bills # bills
    /\ ~ret.panicked

\* C10: a Transfer whose spends is empty returns the state it was given,
\* whatever its receives.
C10_EmptySpendNoOp ==
    (IsTransfer /\ Len(tx.spends) = 0) => Unchanged

\* C10 witness: nothing is spent and the receives are well formed (positive
\* amounts, the serials the state assigns next); the state comes back as is.
C10_Witness ==
    /\ IsTransfer /\ Len(tx.spends) = 0 /\ Len(tx.receives) > 0
    /\ \A k \in 1..Len(tx.receives) :
           /\ tx.receives[k].amount > 0
           /\ tx.receives[k].serial = next_serial + (k - 1)
    /\ Unchanged

\* C11: a Transfer with non-empty spends whose receives amounts, added in
\* order, pass u64::MAX at some step returns the state it was given: the
\* receive total is never wrapped and the call does not abort.
C11_ReceiveOverflowGuard ==
    (IsTransfer /\ Len(tx.spends) > 0 /\ SumAmounts(tx.receives) > U64_MAX)
        => Unchanged

\* C11 witness: the receive-sum guard alone turns a Transfer down: live
\* spends, positive receives none of which is a spend, numbered from
\* next_serial, whose sum passes u64::MAX.
C11_Witness ==
    /\ IsTransfer /\ Len(tx.spends) > 0
    /\ \A k \in 1..Len(tx.spends) : tx.spends[k] \in bills
    /\ \A k \in 1..Len(tx.receives) :
           /\ tx.receives[k].amount > 0
           /\ ~contains(tx.spends, tx.receives[k])
           /\ tx.receives[k].serial = next_serial + (k - 1)
    /\ SumAmounts(tx.receives) > U64_MAX
    /\ Unchanged

\* C12: a Transfer with non-empty receives in which some spends entry is not
\* a live bill, compared by owner, amount and serial together, returns the
\* state it was given.
C12_SpendExistence ==
    (IsTransfer /\ Len(tx.receives) > 0
        /\ (\E k \in 1..Len(tx.spends) : tx.spends[k] \notin bills))
        => Unchanged

\* C13: a Transfer with non-empty receives in which two spends entries are
\* equal in owner, amount and serial returns the state it was given,
\* whatever the amounts of the bills involved.
C13_DuplicateSpends ==
    (IsTransfer /\ Len(tx.receives) > 0
        /\ (\E i, j \in 1..Len(tx.spends) :
               i # j /\ tx.spends[i] = tx.spends[j]))
        => Unchanged

\* C14: a Transfer with non-empty spends and receives in which the serial of
\* some received bill differs from next_serial plus its position (counted
\* from 0) returns the state it was given.
C14_SerialContiguity ==
    (IsTransfer /\ Len(tx.spends) > 0 /\ Len(tx.receives) > 0
        /\ (\E k \in 1..Len(tx.receives) :
               tx.receives[k].serial # next_serial + (k - 1)))
        => Unchanged

\* C15: a Transfer with non-empty spends and receives in which some received
\* bill carries the serial of some spent bill, as the very same bill or with
\* another owner or amount, returns the state it was given.
C15_NoSerialReuse ==
    (IsTransfer /\ Len(tx.spends) > 0 /\ Len(tx.receives) > 0
        /\ (\E i \in 1..Len(tx.spends) : \E j \in 1..Len(tx.receives) :
               tx.spends[i].serial = tx.receives[j].serial))
        => Unchanged

\* C16: a Transfer with non-empty spends in which some received bill has
\* amount 0 returns the state it was given, although a Mint may create a bill
\* of amount 0.
C16_ZeroReceiveRejected ==
    (IsTransfer /\ Len(tx.spends) > 0
        /\ (\E k \in 1..Len(tx.receives) : tx.receives[k].amount = 0))
        => Unchanged

\* C16 witness: the zero-amount test alone turns a Transfer down: distinct
\* live spends, receives numbered from next_serial that share no serial with
\* the spends and sum within the spends, one of them of amount 0.
C16_Witness ==
    /\ IsTransfer /\ Len(tx.spends) > 0
    /\ \A k \in 1..Len(tx.spends) : tx.spends[k] \in bills
    /\ ~duplicate_spends(tx.spends)
    /\ ~serial_already_seen(tx.spends, tx.receives)
    /\ \A k \in 1..Len(tx.receives) :
           tx.receives[k].serial = next_serial + (k - 1)
    /\ SumAmounts(tx.receives) <= SumAmounts(tx.spends)
    /\ \E k \in 1..Len(tx.receives) : tx.receives[k].amount = 0
    /\ Unchanged

\* C17: from the fresh state, the spend-side total of a Transfer with
\* non-empty receives never overflows: the call does not abort, it returns
\* either the state it was given or the committed state, and a Transfer that
\* satisfies every check on its true sums is committed, not turned down over
\* a wrapped total.
C17_SpendSideNoAbort ==
    (IsTransfer /\ Len(tx.receives) > 0)
        => /\ ~ret.panicked
           /\ Unchanged \/ (Len(tx.spends) > 0 /\ Committed)
           /\ (Len(tx.spends) > 0 /\ SatisfiesEveryCheck) => Committed

\* The true sum of the amounts of a set of bills.
RECURSIVE TotalAmount(_)
TotalAmount(S) ==
    IF S = {} THEN 0
    ELSE LET b == CHOOSE x \in S : TRUE
         IN  b.amount + TotalAmount(S \ {b})

\* C18: from the fresh state, no Transfer (committed, rejected, empty-spend
\* or burn) returns live bills worth more in total than those it was given;
\* a Mint raises the total by exactly the minted amount.
C18_NoValueCreation ==
    /\ IsTransfer => TotalAmount(ret.bills) <= TotalAmount(bills)
    /\ tx.kind = "Mint"
           => TotalAmount(ret.bills) = TotalAmount(bills) + tx.amount

\* C18 witness: a committed Transfer that spends several bills for several
\* receives, none of them lost in value.
C18_Witness ==
    /\ IsTransfer /\ Len(tx.spends) > 1 /\ Len(tx.receives) > 0
    /\ Committed /\ ret.bills # bills
    /\ TotalAmount(ret.bills) = TotalAmount(bills)
    /\ TotalAmount(bills) > 0

\* C19: from any state, reached by transitions or built with State::from and
\* set_serial, a Mint that returns has made the set of live bills exactly one
\* bill larger.
C19_MintAddsOneBill ==
    (tx.kind = "Mint" /\ ~ret.panicked)
        => Cardinality(ret.bills) = Cardinality(bills) + 1

\* C20: from any state, next_serial at or near u64::MAX included, the serial
\* arithmetic stays within u64: a Mint returns with its bill added and
\* next_serial one higher, and a Transfer whose spends sum within u64 returns
\* either the state it was given or its committed (or burned) state; no call
\* aborts and no serial wraps.
C20_SerialNoOverflow ==
    /\ tx.kind = "Mint"
           => /\ ~ret.panicked
              /\ MkBill(tx.minter, tx.amount, next_serial) \in ret.bills
              /\ ret.next_serial = next_serial + 1
    /\ (IsTransfer /\ SumAmounts(tx.spends) <= U64_MAX)
           => /\ ~ret.panicked
              /\ ret.next_serial >= next_serial
              /\ \/ Unchanged
                 \/ Len(tx.receives) > 0 /\ Committed
                 \/ Len(tx.receives) = 0 /\ ret.next_serial = next_serial
                        /\ ret.bills = bills \ Range(tx.spends)

\* C21: from the fresh state, every live bill has a serial strictly below
\* next_serial, in the ledger and in every returned state, so the serial the
\* next minted or received bill takes is held by no live bill.
C21_CursorBoundsLiveSerials ==
    /\ \A b \in bills : b.serial < next_serial
    /\ \A b \in ret.bills : b.serial < ret.next_serial
    /\ \A b \in bills \cup ret.bills : b.serial # ret.next_serial

\* C21 witness: a committed Transfer has returned several live bills, its
\* receives among them, the last one numbered just below the new cursor.
C21_Witness ==
    /\ IsTransfer /\ Len(tx.spends) > 0 /\ Len(tx.receives) > 0
    /\ Committed /\ ret.next_serial > next_serial
    /\ Cardinality(ret.bills) >= 2
    /\ \E b \in Range(tx.receives) :
           b \in ret.bills /\ b.serial = ret.next_serial - 1

====
